---- MODULE Spec2Model ----
(***************************************************************************)
(* Model of the animalese typing extension: the asset path resolver        *)
(* (get/filePath.ts), the channel based playback manager (audio.ts) and    *)
(* the key press handler that drives them (extension.ts).                  *)
(***************************************************************************)
EXTENDS Integers, Sequences, FiniteSets, TLC

(***************************************************************************)
(* Bounds of the model.                                                    *)
(***************************************************************************)
\* Number of key presses (playAudio calls) of one run of the playback model.
MaxPlays == 3
\* Number of getFilePath calls of one run of the resolver model.
MaxPathCalls == 2
\* Number of getFilePath calls of one run of the voice table model.
MaxResolveCalls == 1
\* Number of modulation computations of one run of the modulation model.
MaxModCalls == 2
\* Number of values Math.random() takes: 0/RandSteps .. (RandSteps-1)/RandSteps.
RandSteps == 4

(***************************************************************************)
(* Program constants.                                                      *)
(***************************************************************************)
\* CHANNEL_MAP of extension.ts.
CHANNEL_MAP == [voice |-> 1, melodic |-> 3, sfx |-> 2]

Channels == {CHANNEL_MAP.voice, CHANNEL_MAP.sfx, CHANNEL_MAP.melodic}

\* context.extensionPath, supplied by the editor.
ExtensionPath == "/ext"

\* constants/voiceList.ts: the eight voices, female 1-4 then male 1-4.
VOICE_LIST ==
    << "Female Voice 1 (Sweet)", "Female Voice 2", "Female Voice 3",
       "Female Voice 4", "Male Voice 1", "Male Voice 2", "Male Voice 3",
       "Male Voice 4" >>

\* constants/charTypes.ts: the characters that play a sustained vocal tone.
HARMONIC_CHARACTERS ==
    << "0", "1", "2", "3", "4", "5", "6", "7", "8", "9", "-", "=" >>

\* constants/charTypes.ts: the characters played from the sfx directory.
SYMBOLS ==
    << "~", "!", "@", "#", "$", "%", "^", "&", "*", "(", ")", "{", "}",
       "[", "]", "?", "\n", "/", "\\" >>

LowerCase ==
    { "a", "b", "c", "d", "e", "f", "g", "h", "i", "j", "k", "l", "m",
      "n", "o", "p", "q", "r", "s", "t", "u", "v", "w", "x", "y", "z" }

UpperCase ==
    { "A", "B", "C", "D", "E", "F", "G", "H", "I", "J", "K", "L", "M",
      "N", "O", "P", "Q", "R", "S", "T", "U", "V", "W", "X", "Y", "Z" }

\* constants/charTypes.ts: the characters given the non-randomized pitch,
\* the harmonic characters.
MELODIC_CHARACTERS == HARMONIC_CHARACTERS

\* settings of settings/pluginSettings.ts; intonation_falloffTime is held
\* in milliseconds (0.5 s).
DefaultSettings ==
    [ volume |-> 50,
      voice |-> "Female Voice 1 (Sweet)",
      intonation_falloffTime |-> 500,
      intonation_disableFalloff |-> TRUE,
      intonation_pitchShift |-> 0,
      intonation_pitchVariation |-> 100,
      intonation_switchToExponentialFalloff |-> FALSE,
      intonation_louderUppercase |-> 20,
      specialPunctuation |-> FALSE,
      soundOverride |-> "" ]

\* The settings objects that differ from the defaults in the fields the
\* resolver reads.
ResolverSettings(voices, flags, overrides) ==
    { [DefaultSettings EXCEPT !.voice = v, !.specialPunctuation = f,
                              !.soundOverride = o] :
          v \in voices, f \in flags, o \in overrides }

(***************************************************************************)
(* JavaScript helpers.                                                     *)
(***************************************************************************)
Range(s) == { s[i] : i \in DOMAIN s }

\* Array.prototype.indexOf: zero based, -1 when absent.
IndexOf(arr, x) ==
    IF x \in Range(arr)
    THEN (CHOOSE i \in DOMAIN arr :
              arr[i] = x /\ \A j \in DOMAIN arr : arr[j] = x => i <= j) - 1
    ELSE -1

\* Array.prototype.includes.
Includes(arr, x) == x \in Range(arr)

\* Unary plus on a boolean.
ToNumber(b) == IF b THEN 1 ELSE 0

\* path.join of plain segments.
RECURSIVE PathJoin(_)
PathJoin(segs) ==
    IF Len(segs) = 1 THEN segs[1]
    ELSE segs[1] \o "/" \o PathJoin(Tail(segs))

(***************************************************************************)
(* charTypeChecks.ts                                                       *)
(***************************************************************************)
isAlphabetical(char) == char \in LowerCase \cup UpperCase

isHarmonic(char) == Includes(HARMONIC_CHARACTERS, char)

isSymbolic(char) == Includes(SYMBOLS, char)

\* isMelodic of a string (a key is never of type number).
isMelodic(char) == Includes(MELODIC_CHARACTERS, char)

(***************************************************************************)
(* get/filePath.ts                                                         *)
(***************************************************************************)
\* symbolToName: the name of a symbol, "" standing for null.
symbolToName(sym) ==
    CASE sym = "~" -> "tilde"
      [] sym = "!" -> "exclamation"
      [] sym = "@" -> "at"
      [] sym = "#" -> "pound"
      [] sym = "$" -> "dollar"
      [] sym = "%" -> "percent"
      [] sym = "^" -> "caret"
      [] sym = "&" -> "ampersand"
      [] sym = "*" -> "asterisk"
      [] sym = "(" -> "parenthesis_open"
      [] sym = ")" -> "parenthesis_closed"
      [] sym = "{" -> "brace_open"
      [] sym = "}" -> "brace_closed"
      [] sym = "[" -> "bracket_open"
      [] sym = "]" -> "bracket_closed"
      [] sym = "?" -> "question"
      [] sym = "\n" -> "enter"
      [] sym = "/" -> "slash_forward"
      [] sym = "\\" -> "slash_back"
      [] OTHER -> ""

\* The key of the cache lookup: key, index of the voice, flag.
CacheLookupKey(key, g) ==
    key \o ToString(IndexOf(VOICE_LIST, g.voice))
        \o ToString(ToNumber(g.specialPunctuation))

\* A store key composed like the lookup key but with the flag dropped.
CacheStoreKeyNoFlag(key, g) ==
    key \o ToString(IndexOf(VOICE_LIST, g.voice)) \o "0"

\* The key of the cache store: key, name of the voice, flag.
CacheStoreKey(key, g) ==
    key \o g.voice \o ToString(ToNumber(g.specialPunctuation))

\* A gender split that takes the fourth voice for a male one.
GenderSplitAtThree(vocalIndex) == IF vocalIndex < 3 THEN "female" ELSE "male"

Gender(vocalIndex) == IF vocalIndex <= 3 THEN "female" ELSE "male"

VoiceDir(vocalIndex) == "voice_" \o ToString((vocalIndex % 4) + 1)

animalesePath(vocalIndex) ==
    PathJoin(<< ExtensionPath, "audio", "animalese", Gender(vocalIndex),
                VoiceDir(vocalIndex) >>)

vocalsPath(vocalIndex) ==
    PathJoin(<< ExtensionPath, "audio", "vocals", Gender(vocalIndex),
                VoiceDir(vocalIndex) >>)

sfxPath == PathJoin(<< ExtensionPath, "audio", "sfx" >>)

\* The noise table of the voiced punctuation.
Noise(key) ==
    CASE key = "!" -> "Gwah"
      [] key = "?" -> "Deska"
      [] key = "\n" -> "OK"
      [] OTHER -> "undefined"

\* The body of the symbolic case, also entered by fall-through.
SymbolicPath(key) ==
    PathJoin(<< sfxPath,
                (IF symbolToName(key) # "" THEN symbolToName(key)
                 ELSE "default") \o ".mp3" >>)

\* A switch whose punctuation case never tests specialPunctuation.
ResolvePathFlagIgnored(key, vocalIndex, pluginSettings) ==
    CASE isAlphabetical(key) ->
            PathJoin(<< animalesePath(vocalIndex), key \o ".mp3" >>)
      [] ~isAlphabetical(key) /\ isHarmonic(key) ->
            PathJoin(<< vocalsPath(vocalIndex),
                        ToString(IndexOf(HARMONIC_CHARACTERS, key))
                            \o ".mp3" >>)
      [] ~isAlphabetical(key) /\ ~isHarmonic(key)
            /\ key \in {"!", "?", "\n"} ->
            PathJoin(<< animalesePath(vocalIndex), Noise(key) \o ".mp3" >>)
      [] ~isAlphabetical(key) /\ ~isHarmonic(key)
            /\ key \notin {"!", "?", "\n"} /\ isSymbolic(key) ->
            SymbolicPath(key)
      [] ~isAlphabetical(key) /\ ~isHarmonic(key)
            /\ key \notin {"!", "?", "\n"} /\ ~isSymbolic(key)
            /\ key \in {"tab", "backspace"} ->
            PathJoin(<< sfxPath, key \o ".mp3" >>)
      [] OTHER -> PathJoin(<< sfxPath, "default.mp3" >>)

\* The switch of getFilePath: the path of a key, computed afresh.
ResolvePath(key, vocalIndex, pluginSettings) ==
    CASE isAlphabetical(key) ->
            PathJoin(<< animalesePath(vocalIndex), key \o ".mp3" >>)
      [] ~isAlphabetical(key) /\ isHarmonic(key) ->
            PathJoin(<< vocalsPath(vocalIndex),
                        ToString(IndexOf(HARMONIC_CHARACTERS, key))
                            \o ".mp3" >>)
      [] ~isAlphabetical(key) /\ ~isHarmonic(key)
            /\ key \in {"!", "?", "\n"} ->
            IF pluginSettings.specialPunctuation
            THEN PathJoin(<< animalesePath(vocalIndex),
                             Noise(key) \o ".mp3" >>)
            ELSE SymbolicPath(key)
      [] ~isAlphabetical(key) /\ ~isHarmonic(key)
            /\ key \notin {"!", "?", "\n"} /\ isSymbolic(key) ->
            SymbolicPath(key)
      [] ~isAlphabetical(key) /\ ~isHarmonic(key)
            /\ key \notin {"!", "?", "\n"} /\ ~isSymbolic(key)
            /\ key \in {"tab", "backspace"} ->
            PathJoin(<< sfxPath, key \o ".mp3" >>)
      [] OTHER -> PathJoin(<< sfxPath, "default.mp3" >>)

\* Whether getFilePath returns at the cache-hit branch (g: the settings
\* module object, read for the cache key).
CacheHit(cache, key, g) ==
    /\ CacheLookupKey(key, g) \in DOMAIN cache
    /\ cache[CacheLookupKey(key, g)] # ""
    /\ g.soundOverride = ""

\* The string getFilePath returns.
getFilePath(cache, key, vocalIndex, pluginSettings, g) ==
    IF pluginSettings.soundOverride # ""
    THEN pluginSettings.soundOverride
    ELSE IF CacheHit(cache, key, g)
    THEN cache[CacheLookupKey(key, g)]
    ELSE ResolvePath(key, vocalIndex, pluginSettings)

\* A resolver that stores the resolved path before it tests the override.
CacheAfterStoreFirst(cache, key, vocalIndex, pluginSettings, g) ==
    IF CacheHit(cache, key, g)
    THEN cache
    ELSE [ k \in DOMAIN cache \cup {CacheStoreKey(key, g)} |->
             IF k = CacheStoreKey(key, g)
             THEN ResolvePath(key, vocalIndex, pluginSettings)
             ELSE cache[k] ]

\* PATH_CACHE after getFilePath has returned.
CacheAfter(cache, key, vocalIndex, pluginSettings, g) ==
    IF pluginSettings.soundOverride # "" \/ CacheHit(cache, key, g)
    THEN cache
    ELSE [ k \in DOMAIN cache \cup {CacheStoreKey(key, g)} |->
             IF k = CacheStoreKey(key, g)
             THEN ResolvePath(key, vocalIndex, pluginSettings)
             ELSE cache[k] ]

(***************************************************************************)
(* extension.ts: helpers of the key press handler.                         *)
(***************************************************************************)
assignKeyToChannel(key) ==
    CASE isAlphabetical(key) -> CHANNEL_MAP.voice
      [] ~isAlphabetical(key) /\ isHarmonic(key) -> CHANNEL_MAP.melodic
      [] OTHER -> CHANNEL_MAP.sfx

(***************************************************************************)
(* State.                                                                  *)
(***************************************************************************)
VARIABLES
    phase,              \* "init", "active" (activate has run), "deactivated"
    settings,           \* the settings object of settings/pluginSettings.ts
    PATH_CACHE,         \* get/filePath.ts: cache key -> path
    sharedAudioContext, \* extension.ts: 0 for null, else the context's number
    nCtx,               \* number of AudioContexts created so far
    closedCtx,          \* the contexts on which close() was called
    shownError,         \* the last message given to showErrorMessage
    nCalls,             \* number of playAudio calls made so far
    pc,                 \* per playAudio call: idle, awaiting, done, failed
    chan,               \* per playAudio call: its channel argument
    ctxOf,              \* per playAudio call: its audioContext argument
    source,             \* per call: its AudioBufferSourceNode, st: none,
                        \* playing, finishing (ended event due), ended;
                        \* stop: stop() was invoked on it
    cutBy,              \* per call: the calls that scheduled the fade ramp
                        \* on its gain node (cutOffAudioOnChannel)
    activeChannels,     \* audio.ts: channel -> registered source, 0 if none
    timers,             \* pending setTimeout callbacks, in firing order
    pathCalls,          \* resolver model: number of getFilePath calls made
    prevCall,           \* resolver model: the call before the last one
    lastCall,           \* resolver model: the last getFilePath call
    modCalls,           \* modulation model: number of computations made
    prevMod,            \* modulation model: the computation before the last
    lastMod             \* modulation model: the last computation

vars ==
    << phase, settings, PATH_CACHE, sharedAudioContext, nCtx, closedCtx,
       shownError, nCalls, pc, chan, ctxOf, source, cutBy,
       activeChannels, timers, pathCalls, prevCall, lastCall, modCalls,
       prevMod, lastMod >>

audioVars ==
    << sharedAudioContext, nCtx, closedCtx, shownError, nCalls, pc, chan,
       ctxOf, source, cutBy, activeChannels, timers >>

pathHistory == << pathCalls, prevCall, lastCall >>

modHistory == << modCalls, prevMod, lastMod >>

Calls == 1 .. MaxPlays

\* The keys typed in the playback model: a letter (voice channel) and a
\* digit (melodic channel).
PlayKeys == { "a", "5" }

\* The key typed in the fade model, which follows one channel.
FadeKeys == { "a" }

\* The soundOverride values a user configures.
CustomSound == "/custom.mp3"

\* The settings activate loads in the playback model.
PlaySettings == { DefaultSettings }

NoCall == [ key |-> "", settings |-> DefaultSettings, hit |-> FALSE,
            lookupKey |-> "", storeKey |-> "", result |-> "" ]

EmptyCache == << >>

\* No gain ramp scheduled.
NoRamp == [ kind |-> "none", ms |-> 0 ]

NoMod == [ key |-> "", rnd |-> 0, pitch |-> 0, volume |-> 0,
           ramp |-> NoRamp ]

Init ==
    /\ phase = "init"
    /\ settings = DefaultSettings
    /\ PATH_CACHE = EmptyCache
    /\ sharedAudioContext = 0
    /\ nCtx = 0
    /\ closedCtx = {}
    /\ shownError = "none"
    /\ nCalls = 0
    /\ pc = [r \in Calls |-> "idle"]
    /\ chan = [r \in Calls |-> 0]
    /\ ctxOf = [r \in Calls |-> 0]
    /\ source = [r \in Calls |-> [st |-> "none", stop |-> FALSE]]
    /\ cutBy = [r \in Calls |-> {}]
    /\ activeChannels = [c \in Channels |-> 0]
    /\ timers = << >>
    /\ pathCalls = 0
    /\ prevCall = NoCall
    /\ lastCall = NoCall
    /\ modCalls = 0
    /\ prevMod = NoMod
    /\ lastMod = NoMod

(***************************************************************************)
(* audio.ts                                                                *)
(***************************************************************************)
\* Pitch values are held as numerators over PitchDen, so that the factor
\* 1.5, the percentage and the random fraction stay integers.
PitchDen == 200 * RandSteps

\* Gain values are held as numerators over VolumeDen.
VolumeDen == 100 * 100

\* A pitch computation without the early return for melodic keys.
calculatePitchNoMelodicReturn(key, rnd, g) ==
    LET pitchShiftCents == g.intonation_pitchShift * 100 * PitchDen
        randomVariation ==
            200 * (rnd * g.intonation_pitchVariation * 2
                     - g.intonation_pitchVariation * RandSteps)
    IN  IF g.intonation_louderUppercase > 0 /\ key \in UpperCase
        THEN pitchShiftCents
               + RandSteps * 3 * g.intonation_pitchVariation
                   * (100 + g.intonation_louderUppercase)
        ELSE pitchShiftCents + randomVariation

\* A pitch computation that adds the random variation to the boost too.
calculatePitchRandomBoost(key, rnd, g) ==
    LET pitchShiftCents == g.intonation_pitchShift * 100 * PitchDen
        randomVariation ==
            200 * (rnd * g.intonation_pitchVariation * 2
                     - g.intonation_pitchVariation * RandSteps)
    IN  IF isMelodic(key) THEN pitchShiftCents
        ELSE IF g.intonation_louderUppercase > 0 /\ key \in UpperCase
        THEN pitchShiftCents + randomVariation
               + RandSteps * 3 * g.intonation_pitchVariation
                   * (100 + g.intonation_louderUppercase)
        ELSE pitchShiftCents + randomVariation

\* calculatePitch, in cents times PitchDen; Math.random() = rnd / RandSteps.
calculatePitch(key, rnd, g) ==
    LET pitchShiftCents == g.intonation_pitchShift * 100 * PitchDen
        randomVariation ==
            200 * (rnd * g.intonation_pitchVariation * 2
                     - g.intonation_pitchVariation * RandSteps)
    IN  IF isMelodic(key) THEN pitchShiftCents
        ELSE IF g.intonation_louderUppercase > 0 /\ key \in UpperCase
        THEN pitchShiftCents
               + RandSteps * 3 * g.intonation_pitchVariation
                   * (100 + g.intonation_louderUppercase)
        ELSE pitchShiftCents + randomVariation

\* A volume computation that boosts every key.
calculateVolumeBoostAll(key, g) ==
    g.volume * (100 + g.intonation_louderUppercase)

\* calculateVolume, times VolumeDen.
calculateVolume(key, g) ==
    IF g.intonation_louderUppercase > 0 /\ key \in UpperCase
    THEN g.volume * (100 + g.intonation_louderUppercase)
    ELSE g.volume * 100

\* setupVolumeAndFalloff: the ramp scheduled on the gain node after
\* setValueAtTime(volume).
setupVolumeAndFalloff(volume, key) ==
    IF isMelodic(key)
    THEN [ kind |-> "exponential", ms |-> 500 ]
    ELSE NoRamp

\* cutOffAudioOnChannel: the timers after the call made by call `by`.
TimersAfterCutOff(channel, by) ==
    IF activeChannels[channel] = 0 THEN timers
    ELSE Append(timers, [src |-> activeChannels[channel],
                         ch |-> channel, by |-> by])

\* cutOffAudioOnChannel: the fade ramps after the call made by call `by`.
CutByAfterCutOff(channel, by) ==
    IF activeChannels[channel] = 0 THEN cutBy
    ELSE [cutBy EXCEPT ![activeChannels[channel]] = @ \cup {by}]

\* source.stop(): a playing source stops and its ended event becomes due.
StopSource(src, s) ==
    [src EXCEPT ![s] = [st |-> IF @.st = "playing" THEN "finishing" ELSE @.st,
                        stop |-> TRUE]]

\* A release that empties the whole registry.
ReleaseAll(reg, channel, s) == [c \in Channels |-> 0]

\* A release that leaves the entry in the registry.
ReleaseNothing(reg, channel, s) == reg

\* activeChannels.delete(channel) as the callbacks of source s call it.
Release(reg, channel, s) == [reg EXCEPT ![channel] = 0]

\* A timer callback that deletes the entry without stopping the source.
FadeStopSkipped(src, s) == src

\* The source states after the setTimeout callback's source.stop().
FadeStop(src, s) == StopSource(src, s)

\* playAudio up to its await, made as call r on `channel` with `ctx`.
PlayAudioCall(r, channel, ctx) ==
    /\ timers' = TimersAfterCutOff(channel, r)
    /\ cutBy' = CutByAfterCutOff(channel, r)
    /\ pc' = [pc EXCEPT ![r] = "awaiting"]
    /\ chan' = [chan EXCEPT ![r] = channel]
    /\ ctxOf' = [ctxOf EXCEPT ![r] = ctx]
    /\ nCalls' = r
    /\ UNCHANGED << source, activeChannels >>

\* playAudio after its await: getAudioData has resolved.
LoadComplete(r) ==
    /\ pc[r] = "awaiting"
    /\ pc' = [pc EXCEPT ![r] = "done"]
    /\ source' = [source EXCEPT ![r].st = "playing"]
    /\ activeChannels' = [activeChannels EXCEPT ![chan[r]] = r]
    /\ UNCHANGED << phase, settings, PATH_CACHE, sharedAudioContext, nCtx,
                    closedCtx, shownError, nCalls, chan, ctxOf, cutBy, timers,
                    pathHistory, modHistory >>

\* playAudio after its await: getAudioData has rejected.
LoadFail(r) ==
    /\ pc[r] = "awaiting"
    /\ pc' = [pc EXCEPT ![r] = "failed"]
    /\ UNCHANGED << phase, settings, PATH_CACHE, sharedAudioContext, nCtx,
                    closedCtx, shownError, nCalls, chan, ctxOf, source,
                    cutBy, activeChannels, timers, pathHistory, modHistory >>

\* The buffer of source r has played through; its ended event is due.
NaturalEnd(r) ==
    /\ source[r].st = "playing"
    /\ source' = [source EXCEPT ![r].st = "finishing"]
    /\ UNCHANGED << phase, settings, PATH_CACHE, sharedAudioContext, nCtx,
                    closedCtx, shownError, nCalls, pc, chan, ctxOf,
                    cutBy, activeChannels, timers, pathHistory, modHistory >>

\* source.onended of playAudio.
OnEnded(r) ==
    /\ source[r].st = "finishing"
    /\ source' = [source EXCEPT ![r].st = "ended"]
    /\ activeChannels' = Release(activeChannels, chan[r], r)
    /\ UNCHANGED << phase, settings, PATH_CACHE, sharedAudioContext, nCtx,
                    closedCtx, shownError, nCalls, pc, chan, ctxOf,
                    cutBy, timers, pathHistory, modHistory >>

\* The setTimeout callback of cutOffAudioOnChannel; timers of one delay
\* fire in the order they were armed.
TimerFire ==
    /\ timers # << >>
    /\ LET t == Head(timers) IN
        /\ source' = FadeStop(source, t.src)
        /\ activeChannels' = Release(activeChannels, t.ch, t.src)
    /\ timers' = Tail(timers)
    /\ UNCHANGED << phase, settings, PATH_CACHE, sharedAudioContext, nCtx,
                    closedCtx, shownError, nCalls, pc, chan, ctxOf, cutBy,
                    pathHistory, modHistory >>

\* A cleanup that clears the registry and leaves the sources playing.
SourcesAfterCleanupNoStop(src, reg) == src

\* cleanupChannels: the source states after stop() on every entry.
SourcesAfterCleanup(src, reg) ==
    [r \in Calls |->
        IF r \in ({ reg[c] : c \in Channels } \ {0})
        THEN StopSource(src, r)[r] ELSE src[r]]

(***************************************************************************)
(* extension.ts                                                            *)
(***************************************************************************)
\* activate: loads the settings, creates the shared context, subscribes.
Activate(loaded) ==
    /\ phase = "init"
    /\ phase' = "active"
    /\ settings' = loaded
    /\ nCtx' = nCtx + 1
    /\ sharedAudioContext' = nCtx + 1
    /\ UNCHANGED << PATH_CACHE, closedCtx, shownError, nCalls, pc, chan,
                    ctxOf, source, cutBy, activeChannels, timers,
                    pathHistory, modHistory >>

\* A validation that reports the missing file of a built-in sound only.
ValidationErrorBuiltInOnly(exists, g) ==
    IF ~exists /\ g.soundOverride = ""
    THEN (IF g.soundOverride # "" THEN "custom" ELSE "unknown")
    ELSE "none"

\* validateAudioFilePath: the message it shows, "none" when it returns true.
ValidationError(exists, g) ==
    IF ~exists /\ g.soundOverride # ""
    THEN (IF g.soundOverride # "" THEN "custom" ELSE "unknown")
    ELSE "none"

\* handleKeyPress up to the await inside playAudio.
KeyPressed(key, exists) ==
    /\ nCalls < MaxPlays
    /\ PATH_CACHE' = CacheAfter(PATH_CACHE, key,
                                IndexOf(VOICE_LIST, settings.voice),
                                settings, settings)
    /\ IF ValidationError(exists, settings) # "none"
       THEN /\ shownError' = ValidationError(exists, settings)
            /\ UNCHANGED << sharedAudioContext, nCtx, nCalls, pc, chan,
                            ctxOf, source, cutBy, activeChannels,
                            timers >>
       ELSE /\ shownError' = shownError
            /\ IF sharedAudioContext = 0
               THEN /\ nCtx' = nCtx + 1
                    /\ sharedAudioContext' = nCtx + 1
               ELSE UNCHANGED << nCtx, sharedAudioContext >>
            /\ PlayAudioCall(nCalls + 1, assignKeyToChannel(key),
                             sharedAudioContext')
    /\ UNCHANGED << phase, settings, closedCtx, pathHistory, modHistory >>

\* The onDidChangeTextDocument listener calls handleKeyPress while the
\* extension is active.
HandleKeyPress(key, exists) == phase = "active" /\ KeyPressed(key, exists)

\* The listener, which activate registers without adding it to
\* context.subscriptions and nothing disposes, calls handleKeyPress for a
\* change made after deactivate has run.
LateKeyPress(key, exists) ==
    phase = "deactivated" /\ KeyPressed(key, exists)

\* deactivate: cleanupChannels, then the shared context is closed.
Deactivate ==
    /\ phase = "active"
    /\ phase' = "deactivated"
    /\ source' = SourcesAfterCleanup(source, activeChannels)
    /\ activeChannels' = [c \in Channels |-> 0]
    /\ IF sharedAudioContext # 0
       THEN /\ closedCtx' = closedCtx \cup {sharedAudioContext}
            /\ sharedAudioContext' = 0
       ELSE UNCHANGED << closedCtx, sharedAudioContext >>
    /\ UNCHANGED << settings, PATH_CACHE, nCtx, shownError, nCalls, pc, chan,
                    ctxOf, cutBy, timers, pathHistory, modHistory >>

Next ==
    \/ \E loaded \in PlaySettings : Activate(loaded)
    \/ \E key \in PlayKeys, exists \in BOOLEAN : HandleKeyPress(key, exists)
    \/ \E r \in Calls : LoadComplete(r)
    \/ \E r \in Calls : LoadFail(r)
    \/ \E r \in Calls : NaturalEnd(r)
    \/ \E r \in Calls : OnEnded(r)
    \/ TimerFire
    \/ Deactivate

Spec == Init /\ [][Next]_vars

\* The playback model of one channel.
FadeNext ==
    \/ \E loaded \in PlaySettings : Activate(loaded)
    \/ \E key \in FadeKeys, exists \in BOOLEAN : HandleKeyPress(key, exists)
    \/ \E r \in Calls : LoadComplete(r)
    \/ \E r \in Calls : LoadFail(r)
    \/ \E r \in Calls : NaturalEnd(r)
    \/ \E r \in Calls : OnEnded(r)
    \/ TimerFire
    \/ Deactivate

\* The event loop runs every due timer callback.
FairSpec == Init /\ [][FadeNext]_vars /\ WF_vars(TimerFire)

\* The context of call r is still rendering.
ContextOpen(r) == ctxOf[r] \notin closedCtx

\* The event loop runs every due timer callback, and a context that has
\* not been closed plays every started source through and dispatches its
\* ended event.
LiveSpec ==
    /\ Init
    /\ [][FadeNext]_vars
    /\ WF_vars(TimerFire)
    /\ \A r \in Calls : WF_vars(ContextOpen(r) /\ NaturalEnd(r))
    /\ \A r \in Calls : WF_vars(ContextOpen(r) /\ OnEnded(r))

(***************************************************************************)
(* The lifecycle model: one channel, with the key presses that arrive      *)
(* after deactivate.                                                       *)
(***************************************************************************)
LifeNext ==
    \/ \E loaded \in PlaySettings : Activate(loaded)
    \/ \E key \in FadeKeys, exists \in BOOLEAN : HandleKeyPress(key, exists)
    \/ \E key \in FadeKeys, exists \in BOOLEAN : LateKeyPress(key, exists)
    \/ \E r \in Calls : LoadComplete(r)
    \/ \E r \in Calls : LoadFail(r)
    \/ \E r \in Calls : NaturalEnd(r)
    \/ \E r \in Calls : OnEnded(r)
    \/ TimerFire
    \/ Deactivate

LifeSpec == Init /\ [][LifeNext]_vars

(***************************************************************************)
(* The key press model: one channel, with and without a soundOverride      *)
(* loaded at activation, the file present or missing at each key press.    *)
(***************************************************************************)
KeyKeys == { "a" }

KeySettings == ResolverSettings({ VOICE_LIST[1] }, { FALSE },
                                { "", CustomSound })

KeyNext ==
    \/ \E loaded \in KeySettings : Activate(loaded)
    \/ \E key \in KeyKeys, exists \in BOOLEAN : HandleKeyPress(key, exists)
    \/ \E r \in Calls : LoadComplete(r)
    \/ \E r \in Calls : LoadFail(r)
    \/ \E r \in Calls : NaturalEnd(r)
    \/ \E r \in Calls : OnEnded(r)
    \/ TimerFire
    \/ Deactivate

KeySpec == Init /\ [][KeyNext]_vars

(***************************************************************************)
(* The resolver model: getFilePath called as handleKeyPress calls it,      *)
(* between reloads of the settings.                                        *)
(***************************************************************************)
\* The keys resolved: a letter, a harmonic character, a voiced punctuation
\* mark, a plain symbol and a control key.
PathKeys == { "a", "5", "!", "~", "tab" }

\* The settings a user configures: the first female and a male voice.
PathSettings ==
    ResolverSettings({ VOICE_LIST[1], VOICE_LIST[6] }, BOOLEAN,
                     { "", CustomSound })

\* loadSettings(false) of the onDidChangeConfiguration listener.
LoadSettings(loaded) ==
    /\ phase = "active"
    /\ loaded # settings
    /\ settings' = loaded
    /\ UNCHANGED << phase, PATH_CACHE, audioVars, pathHistory, modHistory >>

\* getFilePath(extensionPath, key, VOICE_LIST.indexOf(settings.voice),
\* settings), with the call recorded.
GetFilePathCall(key) ==
    /\ pathCalls < MaxPathCalls
    /\ pathCalls' = pathCalls + 1
    /\ prevCall' = lastCall
    /\ lastCall' =
         [ key |-> key,
           settings |-> settings,
           hit |-> settings.soundOverride = ""
                     /\ CacheHit(PATH_CACHE, key, settings),
           lookupKey |-> CacheLookupKey(key, settings),
           storeKey |-> CacheStoreKey(key, settings),
           result |-> getFilePath(PATH_CACHE, key,
                                  IndexOf(VOICE_LIST, settings.voice),
                                  settings, settings) ]
    /\ PATH_CACHE' = CacheAfter(PATH_CACHE, key,
                                IndexOf(VOICE_LIST, settings.voice),
                                settings, settings)
    /\ UNCHANGED << phase, settings, audioVars, modHistory >>

PathNext ==
    \/ \E loaded \in PathSettings : Activate(loaded)
    \/ \E loaded \in PathSettings : LoadSettings(loaded)
    \/ \E key \in PathKeys : GetFilePathCall(key)

PathSpec == Init /\ [][PathNext]_vars

(***************************************************************************)
(* The punctuation model: the resolver called for the voiced punctuation   *)
(* marks, a letter and a harmonic character while the flag is switched.    *)
(***************************************************************************)
FlagKeys == { "a", "5", "!", "?", "\n" }

\* The third female and the second male voice, the flag on or off.
FlagSettings ==
    ResolverSettings({ VOICE_LIST[3], VOICE_LIST[6] }, BOOLEAN, { "" })

FlagNext ==
    \/ \E loaded \in FlagSettings : Activate(loaded)
    \/ \E loaded \in FlagSettings : LoadSettings(loaded)
    \/ \E key \in FlagKeys : GetFilePathCall(key)

FlagSpec == Init /\ [][FlagNext]_vars

(***************************************************************************)
(* The voice table model: the resolver called once under each of the       *)
(* eight voices.                                                           *)
(***************************************************************************)
VoiceKeys == { "a", "Z", "5", "=" }

VoiceSettings == ResolverSettings(Range(VOICE_LIST), BOOLEAN, { "" })

VoiceNext ==
    \/ \E loaded \in VoiceSettings : Activate(loaded)
    \/ \E loaded \in VoiceSettings : LoadSettings(loaded)
    \/ \E key \in VoiceKeys :
          pathCalls < MaxResolveCalls /\ GetFilePathCall(key)

VoiceSpec == Init /\ [][VoiceNext]_vars

(***************************************************************************)
(* The modulation model: the pitch, gain and ramp playAudio computes for   *)
(* a key, under the settings loaded at activation.                         *)
(***************************************************************************)
\* A lower and an upper case letter, a digit and a harmonic sign.
ModKeys == { "a", "A", "5", "=" }

ModSettings ==
    { [DefaultSettings EXCEPT !.volume = vol,
                              !.intonation_pitchShift = shift,
                              !.intonation_pitchVariation = variation,
                              !.intonation_louderUppercase = louder,
                              !.intonation_disableFalloff = disable,
                              !.intonation_switchToExponentialFalloff = expo,
                              !.intonation_falloffTime = time] :
          vol \in { 0, 50, 100 }, shift \in { 0, 2 },
          variation \in { 50, 100 },
          louder \in { 0, 20 }, disable \in BOOLEAN, expo \in BOOLEAN,
          time \in { 250, 500 } }

\* playAudio after the load: calculatePitch, calculateVolume and
\* setupVolumeAndFalloff for the key, with the random value drawn.
ModulationCall(key, rnd) ==
    /\ phase = "active"
    /\ modCalls < MaxModCalls
    /\ modCalls' = modCalls + 1
    /\ prevMod' = lastMod
    /\ lastMod' =
         [ key |-> key,
           rnd |-> rnd,
           pitch |-> calculatePitch(key, rnd, settings),
           volume |-> calculateVolume(key, settings),
           ramp |-> setupVolumeAndFalloff(calculateVolume(key, settings),
                                          key) ]
    /\ UNCHANGED << phase, settings, PATH_CACHE, audioVars, pathHistory >>

ModNext ==
    \/ \E loaded \in ModSettings : Activate(loaded)
    \/ \E key \in ModKeys, rnd \in 0 .. RandSteps - 1 :
          ModulationCall(key, rnd)

ModSpec == Init /\ [][ModNext]_vars

(***************************************************************************)
(* Properties of the playback model.                                       *)
(***************************************************************************)
\* A fade timer for source a, armed by call b, is still pending.
FadePending(a, b) ==
    \E i \in DOMAIN timers : timers[i].src = a /\ timers[i].by = b

\* Some fade timer for source a is still pending.
FadeArmed(a) == \E i \in DOMAIN timers : timers[i].src = a

\* Call b cut off source a, and the timer it armed has fired.
FadeFired(a, b) == b \in cutBy[a] /\ ~FadePending(a, b)

\* Source b sounds and nothing has been done to end it.
Sounding(b) ==
    source[b].st = "playing" /\ ~source[b].stop /\ cutBy[b] = {}

\* C1: when playAudio for sound b found sound a registered on the channel,
\* then in every state after the fade timer of a has fired, and while b has
\* started and has neither ended nor been cut off, b is the registered
\* occupant of the channel.
C1_NewOccupantStaysRegistered ==
    \A a, b \in Calls :
        (FadeFired(a, b) /\ Sounding(b)) => activeChannels[chan[b]] = b

\* C2: a playAudio call on a channel whose registered occupant is a arms a
\* fade timer for a, and every source with a fade timer armed eventually
\* has stop() invoked on it.
C2_CutOffSourceIsStopped ==
    /\ [][\A c \in Channels :
            (nCalls' = nCalls + 1 /\ chan'[nCalls'] = c
                /\ activeChannels[c] # 0)
            => \E i \in DOMAIN timers' :
                   /\ timers'[i].src = activeChannels[c]
                   /\ timers'[i].by = nCalls']_vars
    /\ \A a \in Calls : FadeArmed(a) ~> source[a].stop

\* C2 witness: a source that was cut off has been stopped by its fade
\* timer while the extension is active.
C2_Witness ==
    \E a \in Calls :
        /\ phase = "active"
        /\ cutBy[a] # {}
        /\ ~FadeArmed(a)
        /\ source[a].stop

\* The onended callback of source r runs in this step.
EndedStep(r) == source[r].st = "finishing" /\ source'[r].st = "ended"

\* The fade timer callback armed for source r runs in this step.
FadeStep(r) ==
    timers # << >> /\ Head(timers).src = r /\ timers' = Tail(timers)

\* C3: a release of a channel by the onended callback or by the fade timer
\* callback of source r leaves the registry unchanged when the channel's
\* entry does not refer to r.
C3_StaleReleaseIsNoOp ==
    [][\A r \in Calls :
          ((EndedStep(r) \/ FadeStep(r)) /\ activeChannels[chan[r]] # r)
          => activeChannels' = activeChannels]_vars

\* No call later than b was made on the channel of b.
LastOnChannel(b) ==
    \A c \in Calls : (c > b /\ pc[c] # "idle") => chan[c] # chan[b]

\* C4: when playAudio for a was called before playAudio for b on the same
\* channel and both loads have completed, b (still sounding, the latest
\* request of the channel) is the registered occupant and a is not.
C4_LaterRequestWins ==
    \A a, b \in Calls :
        (a < b /\ chan[a] = chan[b] /\ pc[a] = "done" /\ pc[b] = "done"
            /\ Sounding(b) /\ LastOnChannel(b))
        => activeChannels[chan[b]] = b

\* The sources of channel x that sound and have no fade timer armed.
Uncut(x) ==
    { r \in Calls : chan[r] = x /\ source[r].st = "playing" /\ ~FadeArmed(r) }

\* C5: on every channel at most one sounding source is not under a pending
\* fade-out.
C5_OneSoundPerChannel ==
    \A x \in Channels : Cardinality(Uncut(x)) <= 1

\* A step of channel x: playAudio is called on x, the load of a call on x
\* completes or fails, a source of x plays through, or the onended or the
\* fade timer callback of a source of x runs.
StepOfChannel(x) ==
    \/ nCalls' = nCalls + 1 /\ chan'[nCalls'] = x
    \/ \E r \in Calls :
           /\ chan[r] = x
           /\ \/ pc[r] = "awaiting" /\ pc'[r] # "awaiting"
              \/ /\ source[r].st = "playing"
                 /\ source'[r].st = "finishing"
                 /\ timers' = timers
                 /\ phase' = phase
              \/ EndedStep(r)
              \/ FadeStep(r)

\* The registry entry of channel y and the sources and fades of its calls
\* are the same after the step.
ChannelUntouched(y) ==
    /\ activeChannels'[y] = activeChannels[y]
    /\ \A r \in Calls :
           chan[r] = y =>
               /\ chan'[r] = y
               /\ source'[r] = source[r]
               /\ pc'[r] = pc[r]
               /\ cutBy'[r] = cutBy[r]
    /\ \A i \in DOMAIN timers' : timers'[i].ch = y =>
           \E j \in DOMAIN timers : timers[j] = timers'[i]

\* C6: a step that belongs to channel x leaves the registry entry and the
\* sources of every other channel unchanged.
C6_ChannelsIndependent ==
    [][\A x \in Channels :
          StepOfChannel(x) =>
              \A y \in Channels \ {x} : ChannelUntouched(y)]_vars

\* C6 witness: on one channel a source was cut off by its fade timer and
\* has ended, while the occupant of another channel is still registered
\* and sounding.
C6_Witness ==
    \E x, y \in Channels :
        /\ x # y
        /\ activeChannels[y] # 0
        /\ Sounding(activeChannels[y])
        /\ \E r \in Calls :
               /\ chan[r] = x
               /\ source[r].st = "ended"
               /\ source[r].stop
               /\ phase = "active"

\* C7: right after deactivate has run cleanupChannels the registry is
\* empty, every source that was registered has had stop() invoked and no
\* longer plays, and no timer was armed for it.
C7_CleanupImmediateAndComplete ==
    [][(phase = "active" /\ phase' = "deactivated") =>
          /\ \A c \in Channels : activeChannels'[c] = 0
          /\ \A c \in Channels :
                 activeChannels[c] # 0 =>
                     /\ source'[activeChannels[c]].stop
                     /\ source'[activeChannels[c]].st # "playing"
          /\ timers' = timers]_vars

\* C7 witness: after deactivate the registry is empty and a source that no
\* fade timer was ever armed for has been stopped while it played.
C7_Witness ==
    /\ phase = "deactivated"
    /\ \A c \in Channels : activeChannels[c] = 0
    /\ \E r \in Calls :
           /\ cutBy[r] = {}
           /\ source[r].stop
           /\ source[r].st = "finishing"

(***************************************************************************)
(* Properties of the resolver model.                                       *)
(***************************************************************************)
\* The last two calls had the same key, voice and flag and no override.
SameArguments ==
    /\ pathCalls >= 2
    /\ prevCall.key = lastCall.key
    /\ prevCall.settings = lastCall.settings
    /\ lastCall.settings.soundOverride = ""

\* C8: the second of two getFilePath calls with identical key, voice and
\* specialPunctuation and no override looks up the key under which the
\* first call stored its result and returns at the cache-hit branch.
C8_SecondCallServedFromCache ==
    SameArguments =>
        /\ lastCall.lookupKey = prevCall.storeKey
        /\ lastCall.hit

\* The path a cache-free resolution of a recorded call's arguments gives.
FreshPath(call) ==
    ResolvePath(call.key, IndexOf(VOICE_LIST, call.settings.voice),
                call.settings)

\* C9: with no override, getFilePath returns the path a cache-free
\* resolution of its arguments returns, whatever calls were made before
\* under other keys, voices, flags and overrides; two calls with the same
\* arguments return the same string.
C9_ResolutionIndependentOfCache ==
    /\ (pathCalls >= 1 /\ lastCall.settings.soundOverride = "")
           => lastCall.result = FreshPath(lastCall)
    /\ SameArguments => lastCall.result = prevCall.result

\* C9 witness: "!" was resolved with specialPunctuation on, then again for
\* the same voice with the flag off, and the second call returned the
\* sfx path of the flag-off resolution.
C9_Witness ==
    /\ pathCalls >= 2
    /\ prevCall.key = "!"
    /\ lastCall.key = "!"
    /\ prevCall.settings.soundOverride = ""
    /\ lastCall.settings.soundOverride = ""
    /\ prevCall.settings.voice = lastCall.settings.voice
    /\ prevCall.settings.specialPunctuation
    /\ ~lastCall.settings.specialPunctuation
    /\ prevCall.result = "/ext/audio/animalese/male/voice_2/Gwah.mp3"
    /\ lastCall.result = "/ext/audio/sfx/exclamation.mp3"

\* C10: a getFilePath call made while soundOverride is non-empty returns
\* exactly soundOverride and leaves PATH_CACHE unchanged.
C10_OverridePrecedence ==
    [][(pathCalls' = pathCalls + 1 /\ settings.soundOverride # "") =>
          /\ lastCall'.result = settings.soundOverride
          /\ ~lastCall'.hit
          /\ PATH_CACHE' = PATH_CACHE]_vars

\* C10 witness: a call under the override returned the override while the
\* cache held the entry of an earlier call.
C10_Witness ==
    /\ pathCalls >= 2
    /\ prevCall.settings.soundOverride = ""
    /\ lastCall.settings.soundOverride = CustomSound
    /\ lastCall.result = CustomSound
    /\ prevCall.result # CustomSound
    /\ DOMAIN PATH_CACHE = { prevCall.storeKey }

(***************************************************************************)
(* Properties of the punctuation and voice table models.                   *)
(***************************************************************************)
\* The directory of each voice index, written out: index + 1 |-> directory.
ExpectedVoiceDir ==
    << "female/voice_1", "female/voice_2", "female/voice_3",
       "female/voice_4", "male/voice_1", "male/voice_2", "male/voice_3",
       "male/voice_4" >>

\* The voice directory a recorded call should have used.
VoiceDirOf(call) ==
    ExpectedVoiceDir[IndexOf(VOICE_LIST, call.settings.voice) + 1]

\* The voiced noise path and the sfx path expected of a recorded call.
ExpectedPunctuation(call, noise, symbol) ==
    IF call.settings.specialPunctuation
    THEN "/ext/audio/animalese/" \o VoiceDirOf(call) \o "/" \o noise
             \o ".mp3"
    ELSE "/ext/audio/sfx/" \o symbol \o ".mp3"

\* C11: for "!", "?" and newline getFilePath returns the voiced noise
\* asset under animalese/<gender>/voice_<slot>/ when specialPunctuation is
\* true and sfx/exclamation, sfx/question, sfx/enter when it is false; a
\* letter or a harmonic character resolves to the same path under both
\* values of the flag.
C11_SpecialPunctuationSwitch ==
    /\ (pathCalls >= 1 /\ lastCall.key = "!")
          => lastCall.result
               = ExpectedPunctuation(lastCall, "Gwah", "exclamation")
    /\ (pathCalls >= 1 /\ lastCall.key = "?")
          => lastCall.result
               = ExpectedPunctuation(lastCall, "Deska", "question")
    /\ (pathCalls >= 1 /\ lastCall.key = "\n")
          => lastCall.result = ExpectedPunctuation(lastCall, "OK", "enter")
    /\ ( /\ pathCalls >= 2
         /\ prevCall.key = lastCall.key
         /\ isAlphabetical(lastCall.key) \/ isHarmonic(lastCall.key)
         /\ prevCall.settings.voice = lastCall.settings.voice )
          => lastCall.result = prevCall.result

\* C11 witness: newline was resolved with the flag off and again, for the
\* same voice, with the flag on: sfx/enter first, the voiced noise second.
C11_Witness ==
    /\ pathCalls >= 2
    /\ prevCall.key = "\n"
    /\ lastCall.key = "\n"
    /\ prevCall.settings.voice = VOICE_LIST[3]
    /\ lastCall.settings.voice = VOICE_LIST[3]
    /\ ~prevCall.settings.specialPunctuation
    /\ lastCall.settings.specialPunctuation
    /\ prevCall.result = "/ext/audio/sfx/enter.mp3"
    /\ lastCall.result = "/ext/audio/animalese/female/voice_3/OK.mp3"

\* C12: for every voice index v in 0..7 the path of an alphabetical key is
\* animalese/<gender>/voice_<slot>/<key>.mp3 and the path of a harmonic
\* key is vocals/<gender>/voice_<slot>/<index of the key>.mp3, with gender
\* female iff v <= 3 and slot (v mod 4) + 1, a number in 1..4.
C12_VoiceIndexToGenderAndSlot ==
    pathCalls >= 1 =>
        LET v == IndexOf(VOICE_LIST, lastCall.settings.voice)
            gender == IF v <= 3 THEN "female" ELSE "male"
            slot == (v % 4) + 1
            dir == gender \o "/voice_" \o ToString(slot)
        IN  /\ v \in 0..7
            /\ slot \in 1..4
            /\ dir = ExpectedVoiceDir[v + 1]
            /\ isAlphabetical(lastCall.key)
                  => lastCall.result
                       = "/ext/audio/animalese/" \o dir \o "/"
                           \o lastCall.key \o ".mp3"
            /\ isHarmonic(lastCall.key)
                  => lastCall.result
                       = "/ext/audio/vocals/" \o dir \o "/"
                           \o ToString(IndexOf(HARMONIC_CHARACTERS,
                                                lastCall.key))
                           \o ".mp3"

\* C12 witness: "5" was resolved under the last voice, index 7.
C12_Witness ==
    /\ pathCalls >= 1
    /\ lastCall.key = "5"
    /\ lastCall.settings.voice = VOICE_LIST[8]
    /\ lastCall.result = "/ext/audio/vocals/male/voice_4/5.mp3"

(***************************************************************************)
(* Properties of the modulation model.                                     *)
(***************************************************************************)
\* C13: for every key with isHarmonic(key) true, calculatePitch returns
\* exactly the base pitch shift, with no random offset and no uppercase
\* boost, in every call and for every pitchVariation and louderUppercase.
C13_HarmonicPitchIsBaseShift ==
    (modCalls >= 1 /\ isHarmonic(lastMod.key)) =>
        lastMod.pitch = settings.intonation_pitchShift * 100 * PitchDen

\* C13 witness: "=" was computed twice with different random values under
\* a pitch shift of 2 and the uppercase boost on; both pitches are 200.
C13_Witness ==
    /\ modCalls >= 2
    /\ prevMod.key = "="
    /\ lastMod.key = "="
    /\ prevMod.rnd # lastMod.rnd
    /\ settings.intonation_pitchShift = 2
    /\ settings.intonation_louderUppercase > 0
    /\ settings.intonation_pitchVariation > 0
    /\ prevMod.pitch = 200 * PitchDen
    /\ lastMod.pitch = 200 * PitchDen

\* The last computation was made for an uppercase letter with the boost on.
BoostedCall(mod) ==
    /\ mod.key \in UpperCase
    /\ settings.intonation_louderUppercase > 0

\* C14: for a single uppercase letter with louderUppercase = p > 0,
\* calculateVolume returns (volume/100)*(1 + p/100) and calculatePitch
\* returns baseShift + 1.5*pitchVariation*(1 + p/100), whatever random
\* value the call drew; two calls under the same settings return the
\* same pair.
C14_UppercaseBoostDeterministic ==
    /\ (modCalls >= 1 /\ BoostedCall(lastMod)) =>
          /\ lastMod.volume * 100 * 100
               = VolumeDen * settings.volume
                   * (100 + settings.intonation_louderUppercase)
          /\ lastMod.pitch * 2 * 100
               = PitchDen
                   * (2 * 100 * 100 * settings.intonation_pitchShift
                        + 3 * settings.intonation_pitchVariation
                            * (100 + settings.intonation_louderUppercase))
    /\ (modCalls >= 2 /\ BoostedCall(lastMod) /\ prevMod.key \in UpperCase)
          => /\ lastMod.pitch = prevMod.pitch
             /\ lastMod.volume = prevMod.volume

\* C14 witness: "A" was computed twice with different random values under
\* volume 50, no shift, variation 100 and boost 20: gain 0.6 and pitch
\* 180 cents both times.
C14_Witness ==
    /\ modCalls >= 2
    /\ prevMod.key = "A"
    /\ lastMod.key = "A"
    /\ prevMod.rnd # lastMod.rnd
    /\ settings.volume = 50
    /\ settings.intonation_pitchShift = 0
    /\ settings.intonation_pitchVariation = 100
    /\ settings.intonation_louderUppercase = 20
    /\ lastMod.volume * 10 = 6 * VolumeDen
    /\ lastMod.pitch = 180 * PitchDen
    /\ prevMod.pitch = 180 * PitchDen

C20_FalloffFollowsSettings ==
    modCalls >= 1 =>
        lastMod.ramp =
            IF settings.intonation_disableFalloff THEN NoRamp
            ELSE [ kind |-> IF settings.intonation_switchToExponentialFalloff
                            THEN "exponential" ELSE "linear",
                   ms |-> settings.intonation_falloffTime ]

(***************************************************************************)
(* Properties of the key press handler.                                    *)
(***************************************************************************)
\* C16: a key press made while soundOverride is empty and the resolved
\* file does not exist shows the generic unknown-sound-asset error and
\* makes no playAudio call.
C16_MissingAssetReported ==
    [][\A key \in PlayKeys :
          (settings.soundOverride = "" /\ HandleKeyPress(key, FALSE))
              => (shownError' = "unknown" /\ nCalls' = nCalls)]_vars

\* C17: a key press made while soundOverride is non-empty and the file
\* does not exist shows the custom-sound-does-not-exist error and leaves
\* the playback state as it was: no cut-off, no source, the registry and
\* the timers unchanged.
C17_MissingCustomSoundReported ==
    [][\A key \in KeyKeys :
          (settings.soundOverride # "" /\ HandleKeyPress(key, FALSE))
              => /\ shownError' = "custom"
                 /\ UNCHANGED << sharedAudioContext, nCtx, closedCtx,
                                 nCalls, pc, chan, ctxOf, source, cutBy,
                                 activeChannels, timers >>]_vars

\* C17 witness: the custom error is shown while the sound of an earlier
\* key press is registered and playing, with no fade ramp on it.
C17_Witness ==
    /\ shownError = "custom"
    /\ settings.soundOverride = CustomSound
    /\ phase = "active"
    /\ \E r \in Calls :
          /\ chan[r] \in Channels
          /\ activeChannels[chan[r]] = r
          /\ source[r].st = "playing"
          /\ cutBy[r] = {}
    /\ timers = << >>

(***************************************************************************)
(* Properties of the playback model: failed loads and pending loads.       *)
(***************************************************************************)
\* The registry entry of the channel of call r is absent.
ChannelIdle(r) == chan[r] \in Channels /\ activeChannels[chan[r]] = 0

\* C18: when the load awaited by a playAudio call on channel X fails, no
\* source is started or registered for that call, and unless a further
\* play request is made on X the registry entry of X is absent at some
\* moment from the failure on.
C18_FailedLoadLeavesChannelIdle ==
    /\ [](\A r \in Calls :
            pc[r] = "failed" =>
                /\ source[r].st = "none"
                /\ activeChannels[chan[r]] # r)
    /\ \A r \in Calls :
          <>(pc[r] = "failed")
              => <>(/\ pc[r] = "failed"
                    /\ ChannelIdle(r) \/ ~LastOnChannel(r))

\* C19: from the moment a playAudio call b has cut off the registered
\* occupant a of its channel, and while the load of b and the fade timer
\* of a are pending, the registry entry of the channel refers to b.
C19_NewOccupantRegisteredAtOnce ==
    \A a, b \in Calls :
        (phase = "active" /\ FadePending(a, b) /\ pc[b] = "awaiting"
            /\ LastOnChannel(b))
        => activeChannels[chan[b]] = b

(***************************************************************************)
(* Properties of the lifecycle.                                            *)
(***************************************************************************)
\* The contexts created so far.
Contexts == 1 .. nCtx

\* C21: at most one context is un-closed at any time, every playAudio call
\* is given the shared context that was current when it was made, and once
\* deactivate has run no created context is left open.
C21_SingleSharedContext ==
    /\ Cardinality(Contexts \ closedCtx) <= 1
    /\ \A r \in Calls : pc[r] # "idle" => ctxOf[r] \in Contexts
    /\ phase = "deactivated" => Contexts \subseteq closedCtx

\* stop() was invoked on source r or its onended callback has run.
CleanedUp(r) == source[r].stop \/ source[r].st = "ended"

\* C22: a fade timer callback or onended callback that runs for a source
\* whose cleanup has already happened (a second fade timer armed for it, or
\* the ended event that follows its stop) leaves the registry as the
\* first cleanup left it, also while the extension is active.
C22_RepeatedCleanupIsNoOp ==
    [][\A r \in Calls :
          (phase = "active" /\ (EndedStep(r) \/ FadeStep(r))
              /\ CleanedUp(r))
          => activeChannels' = activeChannels]_vars

\* Source r has been started, stop() was never invoked on it and its ended
\* event has not been dispatched.
Live(r) == source[r].st \in {"playing", "finishing"} /\ ~source[r].stop

C24_ShutdownIsFinal ==
    phase = "deactivated" => \A c \in Channels : activeChannels[c] = 0

====
